---- MODULE Spec2Model ----
(***************************************************************************)
(* mpvRecall (src/main.py): the resume-session protocol.                   *)
(*                                                                         *)
(* Paths are Python strings, modelled as sequences of ASCII codes so that  *)
(* sorted(), str.lower() and str.endswith() are computed as Python         *)
(* computes them.  Python's None is the empty sequence for a path and -1   *)
(* for a number.                                                           *)
(***************************************************************************)
EXTENDS Integers, Sequences, FiniteSets, TLC

\* ---------------------------------------------------------------- bounds
MaxClock == 3        \* number of timestamped saves in one behaviour
MaxLoads == 2        \* file-loaded events of one player run
MaxLines == 2        \* lines of captured output given to the parser alone

Procs == {1, 2}      \* script runs (browser sessions) sharing the cache file
User == {1}          \* the single interactive actor of the intended use

NoneNum == -1
NonePath == <<>>

\* ---------------------------------------------------------------- paths
SLASH == 47

FILE_A == <<47, 102, 46, 109, 112, 52>>          \* "/f.mp4"
DIR_D  == <<47, 100>>                            \* "/d"

N_B == <<66, 46, 77, 80, 51>>                    \* "B.MP3"
N_a == <<97, 46, 109, 107, 118>>                 \* "a.mkv"
N_n == <<110, 46, 116, 120, 116>>                \* "n.txt"
N_s == <<115, 46, 109, 112, 52>>                 \* "s.mp4" (a sub-directory)

EntryNames == {N_B, N_a, N_n, N_s}

\* os.path.join(folder, f)
Join(folder, f) == folder \o <<SLASH>> \o f

Children(folder) == {Join(folder, f) : f \in EntryNames}

AllPaths == {FILE_A, DIR_D} \cup Children(DIR_D)

\* what kind of object a path of the universe is when it exists
IsDirPath(p) == p \in {DIR_D, Join(DIR_D, N_s)}

\* the paths the user can select, i.e. the keys of the store
Keys == {FILE_A, DIR_D}

\* ------------------------------------------------------- get_media_files
media_extensions ==
  { <<46, 109, 112, 52>>,        \* .mp4
    <<46, 109, 107, 118>>,       \* .mkv
    <<46, 97, 118, 105>>,        \* .avi
    <<46, 109, 111, 118>>,       \* .mov
    <<46, 102, 108, 118>>,       \* .flv
    <<46, 119, 101, 98, 109>>,   \* .webm
    <<46, 109, 112, 51>>,        \* .mp3
    <<46, 119, 97, 118>>,        \* .wav
    <<46, 111, 103, 103>> }      \* .ogg

\* str.lower() on one ASCII code
LowerChar(c) == IF c >= 65 /\ c <= 90 THEN c + 32 ELSE c

\* mutant: the name is compared as it is spelled
Lower_mut(s) == s

Lower(s) == [i \in 1..Len(s) |-> LowerChar(s[i])]

\* str.endswith(suffix)
EndsWith(s, suffix) ==
  /\ Len(suffix) <= Len(s)
  /\ SubSeq(s, Len(s) - Len(suffix) + 1, Len(s)) = suffix

\* Python's < on strings: code point by code point, a proper prefix is less
RECURSIVE StrLess(_, _)
StrLess(a, b) ==
  IF b = <<>> THEN FALSE
  ELSE IF a = <<>> THEN TRUE
  ELSE IF Head(a) < Head(b) THEN TRUE
  ELSE IF Head(a) > Head(b) THEN FALSE
  ELSE StrLess(Tail(a), Tail(b))

\* sorted(iterable of strings)
RECURSIVE sorted(_)
sorted(S) ==
  IF S = {} THEN <<>>
  ELSE LET least == CHOOSE x \in S : \A y \in S \ {x} : StrLess(x, y)
       IN <<least>> \o sorted(S \ {least})

\* os.path.exists / isdir / isfile / listdir on the set of existing paths
exists(disk, p) == p \in disk
isdir(disk, p)  == p \in disk /\ IsDirPath(p)
isfile(disk, p) == p \in disk /\ ~IsDirPath(p)
listdir(disk, folder) == {f \in EntryNames : Join(folder, f) \in disk}

get_media_files(disk, folder) ==
  IF ~isdir(disk, folder) THEN <<>>       \* os.listdir raises, except: []
  ELSE sorted({ Join(folder, f) : f \in
                  { g \in listdir(disk, folder) :
                      /\ isfile(disk, Join(folder, g))
                      /\ \E e \in media_extensions : EndsWith(Lower(g), e) } })

\* mutant: a one-based position
index_mut(list, x) ==
  IF \E i \in 1..Len(list) : list[i] = x
  THEN CHOOSE i \in 1..Len(list) : list[i] = x /\ \A j \in 1..(i - 1) : list[j] # x
  ELSE NoneNum

\* list.index(x) as a zero-based position; -1 when x is not in the list
index(list, x) ==
  IF \E i \in 1..Len(list) : list[i] = x
  THEN (CHOOSE i \in 1..Len(list) :
          list[i] = x /\ \A j \in 1..(i - 1) : list[j] # x) - 1
  ELSE NoneNum

InList(list, x) == \E i \in 1..Len(list) : list[i] = x

\* ------------------------------------------------------ the exit status
\* ${playback-time} as the player prints it, HH:MM:SS, in ASCII codes
COLON == 58
Digit(d) == 48 + d
two_digits(n) == <<Digit(n \div 10), Digit(n % 10)>>
playback_time(h, m, s) ==
  two_digits(h) \o <<COLON>> \o two_digits(m) \o <<COLON>> \o two_digits(s)

\* the same time with a one-digit hour, H:MM:SS
short_time(h, m, s) ==
  <<Digit(h)>> \o <<COLON>> \o two_digits(m) \o <<COLON>> \o two_digits(s)

\* "(unavailable)": what the player prints for a property it cannot expand
UNAVAILABLE == <<40, 117, 110, 97, 118, 97, 105, 108, 97, 98, 108, 101, 41>>

\* One line of captured stdout: whether it starts with "[mpvRecall]", the
\* text between "PATH:" and "#POS:", and the text after "#POS:".
OtherLine == [marker |-> FALSE, path |-> NonePath, pos |-> <<>>]
BadLine   == [marker |-> TRUE, path |-> NonePath, pos |-> UNAVAILABLE]
StatusLine(f, t) == [marker |-> TRUE, path |-> f, pos |-> t]

\* playback-time tokens the player prints: 00:00:02, 00:00:03, 00:05:10
Times == { playback_time(0, 0, 2), playback_time(0, 0, 3),
           playback_time(0, 5, 10) }

\* the times given to the parser when it is exercised on its own: hours,
\* minutes and seconds, printed with two-digit and with one-digit hours
Clocks == { <<0, 0, 0>>, <<0, 0, 1>>, <<0, 0, 2>>, <<0, 0, 3>>, <<0, 1, 0>>,
            <<1, 2, 3>>, <<12, 0, 59>>, <<99, 59, 59>> }

PrintedTimes ==
  {playback_time(c[1], c[2], c[3]) : c \in Clocks} \cup
  {short_time(c[1], c[2], c[3]) : c \in {d \in Clocks : d[1] < 10}}

\* texts after "#POS:" that are no H:MM:SS time: "(unavailable)", nothing,
\* "100:00:05", "0:5:10"
Malformed ==
  { UNAVAILABLE, <<>>,
    <<49, 48, 48, 58, 48, 48, 58, 48, 53>>,
    <<48, 58, 53, 58, 49, 48>> }

\* files the player can be on when it exits: the file it was given, or any
\* file of the folder it was given (its playlist is not the allow-list scan)
ReportablePaths(path_to_play) ==
  IF IsDirPath(path_to_play)
  THEN {c \in Children(path_to_play) : ~IsDirPath(c)}
  ELSE {path_to_play}

Lines(path_to_play) ==
  {OtherLine, BadLine} \cup
  {StatusLine(f, t) : f \in ReportablePaths(path_to_play), t \in Times}

\* what a run leaves on stdout: nothing, or the line it printed last;
\* tabulated for the paths a player is given
OutputsOf ==
  [path_to_play \in Keys \cup {NonePath} |->
     {<<>>} \cup {<<l>> : l \in Lines(path_to_play)}]

Outputs(path_to_play) == OutputsOf[path_to_play]

NoneInfo == [path |-> NonePath, position |-> NoneNum]

\* mutant: the first marker line is kept
RECURSIVE last_status_line_mut(_, _)
last_status_line_mut(all_lines, acc) ==
  IF all_lines = <<>> THEN acc
  ELSE last_status_line_mut(Tail(all_lines),
                            IF Head(all_lines).marker /\ ~acc.marker
                            THEN Head(all_lines) ELSE acc)

\* for line in all_lines: if line.startswith("[mpvRecall]"): last = line
RECURSIVE last_status_line(_, _)
last_status_line(all_lines, acc) ==
  IF all_lines = <<>> THEN acc
  ELSE last_status_line(Tail(all_lines),
                        IF Head(all_lines).marker THEN Head(all_lines) ELSE acc)

\* mutant: the threshold itself counts as significant
significant_mut(position) == position >= 2

\* the significance test of play(): position > 2
significant(position) == position > 2

\* \d
IsDigit(c) == c \in 48..57

DigitsAt(text, i, n) ==
  /\ Len(text) >= i + n - 1
  /\ \A j \in i..(i + n - 1) : IsDigit(text[j])

ColonAt(text, i) == Len(text) >= i /\ text[i] = COLON

\* whether \d{n}:\d{2}:\d{2} matches at the start of text
MatchesHours(text, n) ==
  /\ DigitsAt(text, 1, n)
  /\ ColonAt(text, n + 1)
  /\ DigitsAt(text, n + 2, 2)
  /\ ColonAt(text, n + 4)
  /\ DigitsAt(text, n + 5, 2)

\* match.group(2) of (\d{1,2}:\d{2}:\d{2}) on the text after "#POS:":
\* the greedy two-digit hour first, then the one-digit hour; <<>>: no match
time_str(text) ==
  IF MatchesHours(text, 2) THEN SubSeq(text, 1, 8)
  ELSE IF MatchesHours(text, 1) THEN SubSeq(text, 1, 7)
  ELSE <<>>

\* time_str.split(':') for a matched token
split(token) ==
  LET n == Len(token) - 6 IN
  << SubSeq(token, 1, n), SubSeq(token, n + 2, n + 3),
     SubSeq(token, n + 5, n + 6) >>

\* int() of a string of decimal digits
RECURSIVE int_of_first(_, _)
int_of_first(digits, n) ==
  IF n = 0 THEN 0 ELSE 10 * int_of_first(digits, n - 1) + (digits[n] - 48)

int(digits) == int_of_first(digits, Len(digits))

\* mutant: minutes are counted as seconds
to_position_mut(parts) == int(parts[1]) * 3600 + int(parts[2]) + int(parts[3])

\* h, m, s = map(int, parts); position = float(h * 3600 + m * 60 + s)
to_position(parts) == int(parts[1]) * 3600 + int(parts[2]) * 60 + int(parts[3])

\* lines 121-128 on the text after "#POS:": the position, -1 if no match
position_of(text) ==
  LET token == time_str(text) IN
  IF token = <<>> THEN NoneNum ELSE to_position(split(token))

\* position_of, computed once for every text of the model
positions ==
  [text \in Times \cup PrintedTimes \cup Malformed |-> position_of(text)]

\* play(), from the captured output to its return value
parse(stdout) ==
  LET last == last_status_line(stdout, OtherLine) IN
  IF ~last.marker THEN NoneInfo
  ELSE LET position == positions[last.pos] IN
       IF position # NoneNum /\ significant(position)
       THEN [path |-> last.path, position |-> position]
       ELSE NoneInfo

\* ------------------------------------------------------ the player command
Max(a, b) == IF a >= b THEN a ELSE b

\* mutant: the script seeks to start_pos itself, without the rewind
script_target_mut(start_pos) == start_pos

\* local target_time = {max(start_pos-5,0)} of the Lua script
script_target(start_pos) == Max(start_pos - 5, 0)

\* the branch of play() that installs the seek hook
use_hook(disk, path_to_play, playlist_start_index, resume_specific_file) ==
  /\ resume_specific_file # NonePath
  /\ playlist_start_index # NoneNum
  /\ isdir(disk, path_to_play)

\* mutant: "if start_pos is not None" in place of "if start_pos"
build_cmd_mut(disk, path_to_play, start_pos, playlist_start_index, resume_specific_file) ==
  IF use_hook(disk, path_to_play, playlist_start_index, resume_specific_file)
  THEN [playlist_start |-> playlist_start_index,
        start          |-> NoneNum,
        script         |-> TRUE]
  ELSE [playlist_start |-> playlist_start_index,
        start          |-> IF start_pos # NoneNum THEN start_pos ELSE NoneNum,
        script         |-> FALSE]

\* the flags play() puts on the mpv command line
build_cmd(disk, path_to_play, start_pos, playlist_start_index, resume_specific_file) ==
  IF use_hook(disk, path_to_play, playlist_start_index, resume_specific_file)
  THEN [playlist_start |-> playlist_start_index,
        start          |-> NoneNum,
        script         |-> TRUE]
  ELSE [playlist_start |-> playlist_start_index,
        start          |-> IF start_pos # NoneNum /\ start_pos # 0
                           THEN start_pos ELSE NoneNum,
        script         |-> FALSE]

NoCmd == [playlist_start |-> NoneNum, start |-> NoneNum, script |-> FALSE]

\* ------------------------------------------------------------------ state
VARIABLES
  store,          \* content of CACHE_PATH: path -> session
  disk,           \* the paths that exist
  mpv_installed,  \* whether "mpv" is found in PATH
  script_file,    \* target_time in /tmp/mpv_resume_script.lua, -1: no file
  now,            \* datetime.datetime.now()
  pc,             \* per script run: "idle" or "playing" (inside play())
  selected_path,  \* st.session_state['selected_path']
  all_sessions,   \* the mapping loaded at line 250 by the run that plays
  args,           \* the handler that called play() and play()'s arguments
  cmd,            \* the flags of the running player
  hook,           \* the Lua hook: "off", "pending", "armed", "fired"
  target_time,    \* target_time of the script the player loaded
  loads,          \* file-loaded events of the running player
  seeks,          \* absolute seeks the hook issued in this run
  messages,       \* what the latest script run reported (st.error, st.warning,
                  \* st.success), also when an st.rerun follows at once
  input,          \* a function exercised on its own: what it is given, and
  output          \* <<its return value>>; both <<>> while the program runs

vars == <<store, disk, mpv_installed, script_file, now, pc, selected_path,
          all_sessions, args, cmd, hook, target_time, loads, seeks, messages,
          input, output>>

EmptyMap == [k \in {} |-> 0]

NoArgs == [handler |-> "none", path_to_play |-> NonePath,
           start_pos |-> NoneNum, playlist_start_index |-> NoneNum,
           resume_specific_file |-> NonePath, is_folder |-> FALSE]

Init ==
  /\ store = EmptyMap
  /\ disk = AllPaths
  /\ mpv_installed \in BOOLEAN
  /\ script_file = NoneNum
  /\ now = 0
  /\ pc = [p \in Procs |-> "idle"]
  /\ selected_path = [p \in Procs |-> NonePath]
  /\ all_sessions = [p \in Procs |-> EmptyMap]
  /\ args = [p \in Procs |-> NoArgs]
  /\ cmd = [p \in Procs |-> NoCmd]
  /\ hook = [p \in Procs |-> "off"]
  /\ target_time = [p \in Procs |-> NoneNum]
  /\ loads = [p \in Procs |-> 0]
  /\ seeks = [p \in Procs |-> <<>>]
  /\ messages = {}
  /\ input = <<>>
  /\ output = <<>>

\* --------------------------------------------------------- session store
load_all_sessions == store

\* del all_sessions[key]
del(sessions, key) == [k \in DOMAIN sessions \ {key} |-> sessions[k]]

\* all_sessions[key] = value
setitem(sessions, key, value) ==
  [k \in DOMAIN sessions \cup {key} |-> IF k = key THEN value ELSE sessions[k]]

\* mutant: the finally: clause removes the script file after every launch
cleanup_mut(resume_specific_file, file) == NoneNum

\* the finally: clause of play()
cleanup(resume_specific_file, file) ==
  IF resume_specific_file # NonePath /\ file # NoneNum THEN NoneNum ELSE file

PlayerUnchanged == UNCHANGED <<pc, all_sessions, args, cmd, hook, target_time,
                               loads, seeks>>

\* ------------------------------------------------------ play new media
\* "Select File" / "Select Folder": the dialog returns selection
SelectFile(p, selection) ==
  /\ pc[p] = "idle"
  /\ selected_path' = [selected_path EXCEPT ![p] =
        IF isfile(disk, selection) THEN selection ELSE @]
  /\ messages' = {}
  /\ PlayerUnchanged
  /\ UNCHANGED <<input, output, store, disk, mpv_installed, script_file, now>>

SelectFolder(p, selection) ==
  /\ pc[p] = "idle"
  /\ selected_path' = [selected_path EXCEPT ![p] =
        IF isdir(disk, selection) THEN selection ELSE @]
  /\ messages' = {}
  /\ PlayerUnchanged
  /\ UNCHANGED <<input, output, store, disk, mpv_installed, script_file, now>>

\* the st.warning of line 303, shown by the run that took the fallback
position_reset(handler, is_folder, resume_specific_file) ==
  IF handler = "resume" /\ is_folder /\ resume_specific_file = NonePath
  THEN {"position_reset"} ELSE {}

\* play() up to subprocess.run: the command, the hook script, the launch
Launch(p, handler, loaded, path_to_play, start_pos, playlist_start_index, resume_specific_file, is_folder) ==
  LET c == build_cmd(disk, path_to_play, start_pos, playlist_start_index,
                     resume_specific_file)
      written == IF c.script THEN script_target(start_pos) ELSE script_file
      notes == position_reset(handler, is_folder, resume_specific_file)
  IN IF mpv_installed
     THEN /\ pc' = [pc EXCEPT ![p] = "playing"]
          /\ all_sessions' = [all_sessions EXCEPT ![p] = loaded]
          /\ args' = [args EXCEPT ![p] =
                [handler |-> handler, path_to_play |-> path_to_play,
                 start_pos |-> start_pos,
                 playlist_start_index |-> playlist_start_index,
                 resume_specific_file |-> resume_specific_file,
                 is_folder |-> is_folder]]
          /\ cmd' = [cmd EXCEPT ![p] = c]
          /\ hook' = [hook EXCEPT ![p] = IF c.script THEN "pending" ELSE "off"]
          /\ target_time' = [target_time EXCEPT ![p] = NoneNum]
          /\ loads' = [loads EXCEPT ![p] = 0]
          /\ seeks' = [seeks EXCEPT ![p] = <<>>]
          /\ script_file' = written
          /\ messages' = notes
     ELSE \* FileNotFoundError: play() returns None after the finally: clause
          /\ script_file' = cleanup(resume_specific_file, written)
          /\ messages' = notes \cup {"mpv_not_found", "nothing_saved"}
          /\ PlayerUnchanged

\* "Play Selection"
PlaySelection(p) ==
  /\ pc[p] = "idle"
  /\ selected_path[p] # NonePath
  /\ LET path == selected_path[p]
         is_folder == isdir(disk, path)
     IN IF is_folder /\ get_media_files(disk, path) = <<>>
        THEN /\ messages' = {"no_media"}
             /\ PlayerUnchanged
             /\ UNCHANGED script_file
        ELSE Launch(p, "play", EmptyMap, path, NoneNum, NoneNum, NonePath,
                    is_folder)
  /\ UNCHANGED <<input, output, store, disk, mpv_installed, now, selected_path>>

\* ------------------------------------------------------ saved sessions
\* "Resume": the run loads the store (line 250), then handles the click
Resume(p, original_path) ==
  /\ pc[p] = "idle"
  /\ original_path \in DOMAIN load_all_sessions
  /\ LET loaded == load_all_sessions
         session_data == loaded[original_path]
         last_file == session_data.last_played_file
         is_folder_session == session_data.is_folder
     IN IF ~exists(disk, original_path)
        THEN /\ store' = del(loaded, original_path)
             /\ messages' = {"missing"}
             /\ PlayerUnchanged
             /\ UNCHANGED script_file
        ELSE LET media_files == get_media_files(disk, original_path)
                 found == is_folder_session /\ InList(media_files, last_file)
                 reset == is_folder_session /\ ~found
                 playlist_start_idx ==
                   IF ~is_folder_session THEN NoneNum
                   ELSE IF found THEN index(media_files, last_file) ELSE 0
                 resume_file == IF found THEN last_file ELSE NonePath
                 last_pos_sec ==
                   IF reset THEN 0 ELSE session_data.last_played_position
             IN /\ Launch(p, "resume", loaded, original_path, last_pos_sec,
                          playlist_start_idx, resume_file, is_folder_session)
                /\ UNCHANGED store
  /\ UNCHANGED <<input, output, disk, mpv_installed, now, selected_path>>

\* mutant: the Delete handler saves an empty mapping
after_delete_mut(sessions, original_path) == EmptyMap

\* the mapping after the Delete handler, lines 326-328
after_delete(sessions, original_path) ==
  IF original_path \in DOMAIN sessions THEN del(sessions, original_path)
  ELSE sessions

\* "Delete"; a click for a key that the run no longer finds in the store
\* (deleted meanwhile) does nothing
Delete(p, original_path) ==
  /\ pc[p] = "idle"
  /\ store' = after_delete(load_all_sessions, original_path)
  /\ messages' = IF original_path \in DOMAIN load_all_sessions
                 THEN {"deleted"} ELSE {}
  /\ PlayerUnchanged
  /\ UNCHANGED <<input, output,
                 disk, mpv_installed, script_file, now, selected_path>>

\* ------------------------------------------------------ the running player
\* mpv loads --script=/tmp/mpv_resume_script.lua: local sought = false
PlayerLoadScript(p) ==
  /\ pc[p] = "playing"
  /\ hook[p] = "pending"
  /\ IF script_file # NoneNum
     THEN /\ hook' = [hook EXCEPT ![p] = "armed"]
          /\ target_time' = [target_time EXCEPT ![p] = script_file]
     ELSE /\ hook' = [hook EXCEPT ![p] = "off"]
          /\ UNCHANGED target_time
  /\ UNCHANGED <<input, output,
                 store, disk, mpv_installed, script_file, now, pc,
                 selected_path, all_sessions, args, cmd, loads, seeks,
                 messages>>

\* mutant: the hook seeks on every file-loaded event
issues_seek_mut(h) == h \in {"armed", "fired"}

\* on_file_loaded(): if not sought then ... seek
issues_seek(h) == h = "armed"

\* on_file_loaded(): sought = true
after_load(h) == IF h = "armed" THEN "fired" ELSE h

\* the "file-loaded" event of the player
FileLoaded(p) ==
  /\ pc[p] = "playing"
  /\ hook[p] \in {"armed", "fired"}     \* mp.register_event was executed
  /\ loads[p] < MaxLoads
  /\ loads' = [loads EXCEPT ![p] = @ + 1]
  /\ seeks' = [seeks EXCEPT ![p] =
        IF issues_seek(hook[p]) THEN Append(@, target_time[p]) ELSE @]
  /\ hook' = [hook EXCEPT ![p] = after_load(@)]
  /\ UNCHANGED <<input, output,
                 store, disk, mpv_installed, script_file, now, pc,
                 selected_path, all_sessions, args, cmd, target_time, messages>>

\* mutant: the resumed entry is rebuilt as a file session
fold_mut(sessions, original_path, exit_info, timestamp) ==
  [sessions EXCEPT ![original_path] =
     [@ EXCEPT !.is_folder = FALSE,
               !.last_played_file = exit_info.path,
               !.last_played_position = exit_info.position,
               !.last_played_timestamp = timestamp]]

\* the update of the resumed entry, lines 316-318
fold(sessions, original_path, exit_info, timestamp) ==
  [sessions EXCEPT ![original_path] =
     [@ EXCEPT !.last_played_file = exit_info.path,
               !.last_played_position = exit_info.position,
               !.last_played_timestamp = timestamp]]

\* info_to_save, lines 377-383
info_to_save(path, is_folder, exit_info, timestamp) ==
  [path |-> path, is_folder |-> is_folder,
   last_played_file |-> exit_info.path,
   last_played_position |-> exit_info.position,
   last_played_timestamp |-> timestamp]

\* what the Resume handler saves after playback, line 319
resume_saved(p, exit_info, timestamp) ==
  fold(all_sessions[p], args[p].path_to_play, exit_info, timestamp)

\* mutant: the new session is saved alone, without the reloaded mapping
play_saved_mut(p, exit_info, timestamp) ==
  setitem(EmptyMap, args[p].path_to_play,
          info_to_save(args[p].path_to_play, args[p].is_folder,
                       exit_info, timestamp))

\* what the Play Selection handler saves after playback, lines 376-385
play_saved(p, exit_info, timestamp) ==
  setitem(load_all_sessions, args[p].path_to_play,
          info_to_save(args[p].path_to_play, args[p].is_folder,
                       exit_info, timestamp))

\* mutant: the handlers save without testing exit_info
store_after_mut(p, exit_info, timestamp) ==
  IF args[p].handler = "resume" THEN resume_saved(p, exit_info, timestamp)
  ELSE play_saved(p, exit_info, timestamp)

\* the store after a run that returned exit_info
store_after(p, exit_info, timestamp) ==
  IF exit_info = NoneInfo THEN store
  ELSE IF args[p].handler = "resume" THEN resume_saved(p, exit_info, timestamp)
  ELSE play_saved(p, exit_info, timestamp)

\* the player exits with stdout: the rest of play() and of the handler
PlayerExit(p, stdout) ==
  /\ pc[p] = "playing"
  /\ LET exit_info == parse(stdout) IN
       /\ exit_info # NoneInfo => now < MaxClock
       /\ now' = IF exit_info # NoneInfo THEN now + 1 ELSE now
       /\ store' = store_after(p, exit_info, now + 1)
       /\ messages' =
             position_reset(args[p].handler, args[p].is_folder,
                            args[p].resume_specific_file)
             \cup (IF exit_info # NoneInfo THEN {"saved"}
                   ELSE {"nothing_saved"})
       /\ selected_path' = [selected_path EXCEPT ![p] =
             IF exit_info # NoneInfo /\ args[p].handler = "play"
             THEN NonePath ELSE @]
  /\ script_file' = cleanup(args[p].resume_specific_file, script_file)
  /\ pc' = [pc EXCEPT ![p] = "idle"]
  /\ all_sessions' = [all_sessions EXCEPT ![p] = EmptyMap]
  /\ args' = [args EXCEPT ![p] = NoArgs]
  /\ cmd' = [cmd EXCEPT ![p] = NoCmd]
  /\ hook' = [hook EXCEPT ![p] = "off"]
  /\ target_time' = [target_time EXCEPT ![p] = NoneNum]
  /\ loads' = [loads EXCEPT ![p] = 0]
  /\ seeks' = [seeks EXCEPT ![p] = <<>>]
  /\ UNCHANGED <<input, output, disk, mpv_installed>>

\* the player of script run p exits, with whatever it printed
PlayerExits(p) ==
  \E stdout \in Outputs(args[p].path_to_play) : PlayerExit(p, stdout)

\* ------------------------------------------------------ the file system
\* the paths that come and go while the program is in use: the selected
\* file and the media files of the selected folder
Movable == {FILE_A, Join(DIR_D, N_B), Join(DIR_D, N_a)}

\* a file or folder is moved away or deleted
RemovePath(x) ==
  /\ x \in disk
  /\ disk' = disk \ {x}
  /\ UNCHANGED <<input, output,
                 store, mpv_installed, script_file, now, pc, selected_path,
                 all_sessions, args, cmd, hook, target_time, loads, seeks,
                 messages>>

\* a file or folder appears (again)
CreatePath(x) ==
  /\ x \notin disk
  /\ disk' = disk \cup {x}
  /\ UNCHANGED <<input, output,
                 store, mpv_installed, script_file, now, pc, selected_path,
                 all_sessions, args, cmd, hook, target_time, loads, seeks,
                 messages>>

\* mpv is installed, or removed from PATH
SetPlayer ==
  /\ mpv_installed' = ~mpv_installed
  /\ UNCHANGED <<input, output,
                 store, disk, script_file, now, pc, selected_path,
                 all_sessions, args, cmd, hook, target_time, loads, seeks,
                 messages>>

\* ------------------------------------------------------ specification
\* one interactive actor, and the files that come and go around it
Next ==
  \/ \E p \in User, selection \in Keys : SelectFile(p, selection)
  \/ \E p \in User, selection \in Keys : SelectFolder(p, selection)
  \/ \E p \in User : PlaySelection(p)
  \/ \E p \in User, original_path \in Keys : Resume(p, original_path)
  \/ \E p \in User, original_path \in Keys : Delete(p, original_path)
  \/ \E p \in User : PlayerLoadScript(p)
  \/ \E p \in User : FileLoaded(p)
  \/ \E p \in User : PlayerExits(p)
  \/ \E x \in Movable : RemovePath(x)
  \/ \E x \in Movable : CreatePath(x)
  \/ SetPlayer

Spec == Init /\ [][Next]_vars

\* two script runs at once on the same cache file and the same /tmp: the
\* user's, and a second one that works on the saved sessions
NextTwo ==
  \/ \E p \in User, selection \in Keys : SelectFile(p, selection)
  \/ \E p \in User, selection \in Keys : SelectFolder(p, selection)
  \/ \E p \in User : PlaySelection(p)
  \/ \E p \in Procs, original_path \in Keys : Resume(p, original_path)
  \/ \E p \in Procs, original_path \in Keys : Delete(p, original_path)
  \/ \E p \in Procs : PlayerLoadScript(p)
  \/ \E p \in Procs : FileLoaded(p)
  \/ \E p \in Procs : PlayerExits(p)

SpecTwo == Init /\ [][NextTwo]_vars

\* two script runs resuming the sessions that two earlier saves left in the
\* cache file: "/f.mp4", then the folder "/d", both at 0:05:10
StoredSessions ==
  [k \in Keys |->
     [path |-> k, is_folder |-> k = DIR_D,
      last_played_file |-> IF k = DIR_D THEN Join(DIR_D, N_a) ELSE k,
      last_played_position |-> 310,
      last_played_timestamp |-> IF k = DIR_D THEN 2 ELSE 1]]

InitHook ==
  /\ store = StoredSessions
  /\ disk = AllPaths
  /\ mpv_installed \in BOOLEAN
  /\ script_file = NoneNum
  /\ now = 2
  /\ pc = [p \in Procs |-> "idle"]
  /\ selected_path = [p \in Procs |-> NonePath]
  /\ all_sessions = [p \in Procs |-> EmptyMap]
  /\ args = [p \in Procs |-> NoArgs]
  /\ cmd = [p \in Procs |-> NoCmd]
  /\ hook = [p \in Procs |-> "off"]
  /\ target_time = [p \in Procs |-> NoneNum]
  /\ loads = [p \in Procs |-> 0]
  /\ seeks = [p \in Procs |-> <<>>]
  /\ messages = {}
  /\ input = <<>>
  /\ output = <<>>

NextHook ==
  \/ \E p \in Procs, original_path \in Keys : Resume(p, original_path)
  \/ \E p \in Procs : PlayerLoadScript(p)
  \/ \E p \in Procs : FileLoaded(p)
  \/ \E p \in Procs : PlayerExits(p)

SpecHook == InitHook /\ [][NextHook]_vars

\* ------------------------------------------- functions on their own
\* the program at rest: nothing stored, nothing selected, no player
AtRest ==
  /\ store = EmptyMap
  /\ mpv_installed = TRUE
  /\ script_file = NoneNum
  /\ now = 0
  /\ pc = [p \in Procs |-> "idle"]
  /\ selected_path = [p \in Procs |-> NonePath]
  /\ all_sessions = [p \in Procs |-> EmptyMap]
  /\ args = [p \in Procs |-> NoArgs]
  /\ cmd = [p \in Procs |-> NoCmd]
  /\ hook = [p \in Procs |-> "off"]
  /\ target_time = [p \in Procs |-> NoneNum]
  /\ loads = [p \in Procs |-> 0]
  /\ seeks = [p \in Procs |-> <<>>]
  /\ messages = {}

program == <<store, mpv_installed, script_file, now, pc, selected_path,
             all_sessions, args, cmd, hook, target_time, loads, seeks,
             messages>>

SeqsUpTo(S, n) == UNION {[1..k -> S] : k \in 0..n}

CapturedLines ==
  {OtherLine} \cup
  {StatusLine(f, t) : f \in {Join(DIR_D, N_a), Join(DIR_D, N_B)},
                      t \in PrintedTimes \cup Malformed}

\* play() is given the captured output of a player run
InitParse ==
  /\ AtRest
  /\ disk = AllPaths
  /\ input \in SeqsUpTo(CapturedLines, MaxLines)
  /\ output = <<>>

\* lines 111-135 of play()
ParseOutput ==
  /\ output = <<>>
  /\ output' = <<parse(input)>>
  /\ UNCHANGED <<input, disk, program>>

NextParse == ParseOutput

SpecParse == InitParse /\ [][NextParse]_vars

\* ------------------------------------------- the cache file on its own
\* The cache file as load_all_sessions() finds it: missing, without read
\* permission ("denied"), not UTF-8 text ("undecodable"), text that is not
\* JSON ("invalid"), a JSON array, or a JSON object whose members, in the
\* order of the text, are <<key, <<the five values of the session>>>>.
CacheFile(kind, members) == [kind |-> kind, members |-> members]

\* json.dump(sessions, f, indent=2): one member per key
json_dump(sessions) ==
  LET keys == sorted(DOMAIN sessions) IN
  CacheFile("object",
            [i \in 1..Len(keys) |->
               LET v == sessions[keys[i]] IN
               << keys[i], << v.path, v.is_folder, v.last_played_file,
                              v.last_played_position,
                              v.last_played_timestamp >> >>])

\* json.load(f) of a JSON object: a dict; the last member of a key wins
json_load(members) ==
  [k \in {members[i][1] : i \in DOMAIN members} |->
     LET last == CHOOSE i \in DOMAIN members :
                   /\ members[i][1] = k
                   /\ \A j \in DOMAIN members : members[j][1] = k => j <= i
         v == members[last][2]
     IN [path |-> v[1], is_folder |-> v[2], last_played_file |-> v[3],
         last_played_position |-> v[4], last_played_timestamp |-> v[5]]]

Returned(type, value) == [raised |-> "", type |-> type, value |-> value]
Raised(exception) == [raised |-> exception, type |-> "", value |-> <<>>]

\* load_all_sessions() on a given cache file
load_all_sessions_from(cache) ==
  IF cache.kind = "missing" THEN Returned("dict", EmptyMap)
  ELSE IF cache.kind = "denied" THEN Raised("PermissionError")
  ELSE IF cache.kind = "undecodable" THEN Raised("UnicodeDecodeError")
  ELSE IF cache.kind = "invalid" THEN Returned("dict", EmptyMap)
  ELSE IF cache.kind = "array" THEN Returned("list", cache.members)
  ELSE Returned("dict", json_load(cache.members))

\* mutant: the file is opened for appending
save_session_data_mut(cache, sessions) ==
  IF cache.kind = "missing" THEN json_dump(sessions)
  ELSE CacheFile("invalid", <<>>)

\* save_session_data(sessions) on a given cache file: open(CACHE_PATH, 'w')
\* truncates whatever the file held
save_session_data(cache, sessions) == json_dump(sessions)

\* sessions as the handlers write them
SessionsOf(k) ==
  { [path |-> k, is_folder |-> k = DIR_D, last_played_file |-> f,
     last_played_position |-> pos, last_played_timestamp |-> ts] :
      f \in ReportablePaths(k), pos \in {3, 310}, ts \in {1, 2} }

Mappings ==
  UNION { {m \in [D -> UNION {SessionsOf(k) : k \in D}] :
             \A k \in D : m[k] \in SessionsOf(k)} : D \in SUBSET Keys }

CacheFiles ==
  { CacheFile(kind, <<>>) :
      kind \in {"missing", "denied", "undecodable", "invalid", "array"} }
  \cup { CacheFile("array", <<1>>) }
  \cup { json_dump(m) : m \in Mappings }

InitCache ==
  /\ AtRest
  /\ disk = AllPaths
  /\ input \in CacheFiles
  /\ output = <<>>

\* all_sessions = load_all_sessions(), line 250
LoadAll ==
  /\ output' = <<load_all_sessions_from(input)>>
  /\ UNCHANGED <<input, disk, program>>

\* save_session_data(sessions); without permissions open() raises and
\* nothing is written
SaveAll(sessions) ==
  /\ input.kind # "denied"
  /\ input' = save_session_data(input, sessions)
  /\ output' = <<Returned("NoneType", <<>>)>>
  /\ UNCHANGED <<disk, program>>

NextCache ==
  \/ LoadAll
  \/ \E sessions \in Mappings : SaveAll(sessions)

SpecCache == InitCache /\ [][NextCache]_vars

\* ------------------------------------------- the folder scan on its own
\* file systems in which the entries of "/d" exist only if "/d" does
Disks == {d \in SUBSET AllPaths : (d \cap Children(DIR_D)) # {} => DIR_D \in d}

\* get_media_files is given a folder, a file, or a sub-folder without files
InitScan ==
  /\ AtRest
  /\ disk \in Disks
  /\ input \in {DIR_D, FILE_A, Join(DIR_D, N_s)}
  /\ output = <<>>

\* media_files = get_media_files(folder)
ScanFolder ==
  /\ output = <<>>
  /\ output' = <<get_media_files(disk, input)>>
  /\ UNCHANGED <<input, disk, program>>

NextScan == ScanFolder

SpecScan == InitScan /\ [][NextScan]_vars

TypeOK ==
  /\ DOMAIN store \subseteq Keys
  /\ disk \subseteq AllPaths
  /\ now \in 0..MaxClock
  /\ \A p \in Procs : pc[p] \in {"idle", "playing"}

\* ------------------------------------------------------ claims: vocabulary
\* the entry of a key in a mapping, <<>> when the key is absent
Entry(sessions, k) == IF k \in DOMAIN sessions THEN <<sessions[k]>> ELSE <<>>

HasStatus(stdout) == \E i \in DOMAIN stdout : stdout[i].marker

LastMarker(stdout) ==
  stdout[CHOOSE i \in DOMAIN stdout :
           stdout[i].marker /\ \A j \in DOMAIN stdout : j > i => ~stdout[j].marker]

\* the number of seconds that each playback time of the player runs stands
\* for: the n that is printed as that time
SecondsPrinted ==
  [t \in Times |->
     CHOOSE n \in 0..3600 :
       t = playback_time(n \div 3600, (n \div 60) % 60, n % 60)]

\* the status line carries a playback time
Matches(l) == l.pos \in Times

\* the playback time of a status line, in seconds
Seconds(l) == SecondsPrinted[l.pos]

\* the run printed a well-formed status line last, at more than 2 seconds
Usable(stdout) ==
  /\ HasStatus(stdout)
  /\ LET l == LastMarker(stdout) IN Matches(l) /\ Seconds(l) > 2

\* the outputs of a player given path k that carry no usable status
UnusableOutputs == [k \in Keys |-> {stdout \in Outputs(k) : ~Usable(stdout)}]

\* the step is the launch of a player by script run p
Launches(p) == pc[p] = "idle" /\ pc'[p] = "playing"

\* the step can be the handling of a Play Selection, Resume or Delete click
\* by script run p: it starts idle and no file, player or selection changes
Handles(p) ==
  /\ pc[p] = "idle"
  /\ disk' = disk
  /\ mpv_installed' = mpv_installed
  /\ selected_path' = selected_path

\* the step is the return of play() in script run p after a player run
Returns(p) == pc[p] = "playing" /\ pc'[p] = "idle"

\* ------------------------------------------------------------------ C1
\* C1: every stored session has last_played_position > 2 seconds, and a
\* player run that exits at 2 seconds or less writes nothing: the store,
\* and with it the stored position of the path, stays as it was.
C1_SignificantOnly ==
  /\ [](\A k \in DOMAIN store : store[k].last_played_position > 2)
  /\ [][\A p \in Procs :
          Returns(p) =>
            \A stdout \in Outputs(args[p].path_to_play) :
              ( /\ HasStatus(stdout)
                /\ Matches(LastMarker(stdout))
                /\ Seconds(LastMarker(stdout)) <= 2
                /\ PlayerExit(p, stdout) )
              => store' = store]_vars

\* a session is stored at the smallest significant position, and the latest
\* run ended without a save
C1_Witness ==
  /\ \E k \in DOMAIN store : store[k].last_played_position = 3
  /\ "nothing_saved" \in messages
  /\ mpv_installed

\* ------------------------------------------------------------------ C2
\* C2: every save writes a mapping loaded immediately before the mutation:
\* the save that follows a player run changes only the entry of the path
\* that was played, and a Resume does not bring back an entry that is no
\* longer in the store when the player exits.
C2_SaveFromFreshLoad ==
  [][\A p \in Procs :
       Returns(p) =>
         /\ \A k \in Keys \ {args[p].path_to_play} :
               Entry(store', k) = Entry(store, k)
         /\ (args[p].handler = "resume" /\ store' # store)
               => args[p].path_to_play \in DOMAIN store]_vars

\* ------------------------------------------------------------------ C3
\* C3: an entry disappears from the store only by an explicit Delete.
C3_OnlyDeleteRemoves ==
  [][(\E k \in DOMAIN store : k \notin DOMAIN store')
        => \E p \in Procs, k \in Keys : Delete(p, k)]_vars

C5_SeekOnce ==
  /\ [](\A p \in Procs :
          /\ Len(seeks[p]) <= 1
          /\ hook[p] = "armed" => (loads[p] = 0 /\ seeks[p] = <<>>)
          /\ hook[p] = "fired" => (loads[p] >= 1 /\ Len(seeks[p]) = 1)
          /\ cmd[p].script => cmd[p].start = NoneNum)
  /\ [][\A p \in Procs :
          /\ (hook[p] = "armed" /\ loads'[p] = loads[p] + 1)
               => (hook'[p] = "fired" /\ Len(seeks'[p]) = 1)
          /\ (hook[p] = "fired" /\ pc'[p] = "playing")
               => (hook'[p] = "fired" /\ seeks'[p] = seeks[p])]_vars

\* the hook has fired and further files were loaded after the first
C5_Witness ==
  \E p \in Procs :
    /\ hook[p] = "fired"
    /\ loads[p] >= 2
    /\ Len(seeks[p]) = 1

\* ------------------------------------------------------------------ C6
\* C6: resuming a folder session whose last_played_file is in the fresh
\* scan launches with playlist_start_index = the number of scanned files
\* that sort before it, anchor = last_played_file and offset = the stored
\* last_played_position; the scan is in ascending order.
C6_FolderResumeAtAnchor ==
  [][\A p \in Procs :
       (Launches(p) /\ args'[p].handler = "resume") =>
         LET k == args'[p].path_to_play
             session == store[k]
             scan == get_media_files(disk, k)
             before == {i \in DOMAIN scan :
                          StrLess(scan[i], session.last_played_file)}
         IN (session.is_folder /\ InList(scan, session.last_played_file)) =>
              /\ \A i, j \in DOMAIN scan : i < j => StrLess(scan[i], scan[j])
              /\ args'[p].playlist_start_index = Cardinality(before)
              /\ args'[p].resume_specific_file = session.last_played_file
              /\ args'[p].start_pos = session.last_played_position
              /\ cmd'[p].playlist_start = Cardinality(before)
              /\ cmd'[p].script]_vars

\* a folder resume at the second file of the sorted listing ("a.mkv", after
\* "B.MP3") among the four entries of the folder
C6_Witness ==
  \E p \in Procs :
    /\ pc[p] = "playing"
    /\ args[p].handler = "resume"
    /\ args[p].resume_specific_file = Join(DIR_D, N_a)
    /\ args[p].playlist_start_index = 1
    /\ args[p].start_pos = 310

\* ------------------------------------------------------------------ C7
\* C7: resuming a folder session whose last_played_file is not in the fresh
\* scan launches with playlist index 0, no anchor, offset 0, hence without
\* hook script and without --start flag, reports the position reset and
\* leaves the store as it is.
C7_FallbackToStart ==
  [][\A p \in Procs, k \in Keys :
       ( /\ Handles(p)
         /\ Launches(p) \/ "mpv_not_found" \in messages'
         /\ k \in DOMAIN store
         /\ exists(disk, k)
         /\ store[k].is_folder
         /\ Resume(p, k)
         /\ ~InList(get_media_files(disk, k), store[k].last_played_file) )
       => /\ store' = store
          /\ "position_reset" \in messages'
          /\ mpv_installed =>
               /\ Launches(p)
               /\ args'[p].playlist_start_index = 0
               /\ args'[p].resume_specific_file = NonePath
               /\ args'[p].start_pos = 0
               /\ cmd'[p] = [playlist_start |-> 0, start |-> NoneNum,
                             script |-> FALSE]
               /\ hook'[p] = "off"
               /\ script_file' = script_file]_vars

\* a folder session stored at 0:05:10 in a file that is gone is being
\* resumed from the start of the folder
C7_Witness ==
  \E p \in Procs :
    /\ pc[p] = "playing"
    /\ args[p].handler = "resume"
    /\ args[p].is_folder
    /\ args[p].playlist_start_index = 0
    /\ args[p].resume_specific_file = NonePath
    /\ "position_reset" \in messages
    /\ store[args[p].path_to_play].last_played_position = 310
    /\ store[args[p].path_to_play].last_played_file \notin disk

\* ------------------------------------------------------------------ C8
\* C8: a launch that yields no usable status (no mpv executable, no marker
\* line, marker line not matching, position of 2 seconds or less) leaves
\* the store as it was, in Play Selection and in Resume, and reports that
\* nothing was saved.
C8_NoStatusNoWrite ==
  [][\A p \in Procs :
       /\ Returns(p) =>
            \A stdout \in UnusableOutputs[args[p].path_to_play] :
              PlayerExit(p, stdout)
                => /\ store' = store
                   /\ "nothing_saved" \in messages'
                   /\ "saved" \notin messages'
       /\ ( /\ ~mpv_installed
            /\ Handles(p)
            /\ \/ "no_media" \notin messages' /\ PlaySelection(p)
               \/ \E k \in Keys : exists(disk, k) /\ Resume(p, k) )
            => /\ store' = store
               /\ {"mpv_not_found", "nothing_saved"} \subseteq messages'
               /\ pc'[p] = "idle"]_vars

\* with sessions in the store, a launch failed for want of the player
C8_Witness ==
  /\ store # EmptyMap
  /\ "mpv_not_found" \in messages
  /\ "nothing_saved" \in messages

\* ------------------------------------------------------------------ C9
\* C9: Play Selection of path P ending with a significant status (f, pos)
\* leaves under key P, the path as selected, the session (P, is_folder of P,
\* f, pos, now), whatever P held before, and every other key as the store
\* had it when the player exited.
C9_PlayUpserts ==
  [][\A p \in Procs :
       /\ (Returns(p) /\ args[p].handler = "play") =>
          \A stdout \in Outputs(args[p].path_to_play) :
            (Usable(stdout) /\ PlayerExit(p, stdout))
              => LET P == args[p].path_to_play
                     l == LastMarker(stdout)
                 IN /\ P = selected_path[p]
                    /\ P \in DOMAIN store'
                    /\ store'[P] = [path |-> P,
                                    is_folder |-> args[p].is_folder,
                                    last_played_file |-> l.path,
                                    last_played_position |-> Seconds(l),
                                    last_played_timestamp |-> now']
                    /\ \A k \in Keys \ {P} : Entry(store', k) = Entry(store, k)
       /\ (Launches(p) /\ PlaySelection(p))
            => /\ args'[p].path_to_play = selected_path[p]
               /\ args'[p].is_folder = isdir(disk, selected_path[p])]_vars

\* "/f.mp4" was played to 0:05:10 after a session of the folder was stored
C9_Witness ==
  /\ DOMAIN store = {FILE_A, DIR_D}
  /\ store[FILE_A].last_played_file = FILE_A
  /\ store[FILE_A].last_played_position = 310
  /\ ~store[FILE_A].is_folder
  /\ store[FILE_A].last_played_timestamp > store[DIR_D].last_played_timestamp
  /\ "saved" \in messages
  /\ selected_path[1] = NonePath

\* ------------------------------------------------------------------ C10
\* C10: a Resume ending with a significant status changes, in the mapping
\* it loaded, only last_played_file, last_played_position and
\* last_played_timestamp of the resumed key: same keys, same is_folder,
\* every other entry the same; a file-session Resume launches with the
\* stored offset alone, without playlist index and without anchor.
C10_ResumeUpdatesInPlace ==
  [][\A p \in Procs :
       /\ (Returns(p) /\ args[p].handler = "resume") =>
          \A stdout \in Outputs(args[p].path_to_play) :
            (Usable(stdout) /\ PlayerExit(p, stdout))
              => LET k == args[p].path_to_play
                     old == all_sessions[p]
                     l == LastMarker(stdout)
                 IN /\ DOMAIN store' = DOMAIN old
                    /\ \A j \in DOMAIN old \ {k} : store'[j] = old[j]
                    /\ store'[k].is_folder = old[k].is_folder
                    /\ store'[k].path = old[k].path
                    /\ store'[k].last_played_file = l.path
                    /\ store'[k].last_played_position = Seconds(l)
                    /\ store'[k].last_played_timestamp = now'
                    /\ now' > old[k].last_played_timestamp
       /\ (Launches(p) /\ args'[p].handler = "resume")
            => LET k == args'[p].path_to_play IN
                 /\ all_sessions'[p] = store
                 /\ ~store[k].is_folder =>
                      /\ args'[p].start_pos = store[k].last_played_position
                      /\ args'[p].playlist_start_index = NoneNum
                      /\ args'[p].resume_specific_file = NonePath
                      /\ cmd'[p] = [playlist_start |-> NoneNum,
                                    start |-> store[k].last_played_position,
                                    script |-> FALSE]]_vars

\* a Resume has just saved a new position while another session is stored
C10_Witness ==
  /\ DOMAIN store = {FILE_A, DIR_D}
  /\ "saved" \in messages
  /\ selected_path[1] # NonePath
  /\ now = 3

\* ------------------------------------------------------------------ C11
\* C11: when a launch that wrote the hook script returns, after a player
\* run with or without a usable status or because the player executable was
\* not found, the hook script file does not exist; a launch that wrote no
\* hook script leaves the file as it is, also while the script of another
\* script run is there.
C11_HookScriptRemoved ==
  [][\A p \in Procs :
       /\ Returns(p) =>
            IF cmd[p].script THEN script_file' = NoneNum
            ELSE script_file' = script_file
       /\ (Handles(p) /\ ~mpv_installed /\ pc'[p] = "idle") =>
            \A k \in DOMAIN store :
              (exists(disk, k) /\ Resume(p, k)) =>
                 IF /\ store[k].is_folder
                    /\ InList(get_media_files(disk, k),
                              store[k].last_played_file)
                 THEN script_file' = NoneNum
                 ELSE script_file' = script_file]_vars

\* the folder resume with an anchor has returned and saved, its script is
\* gone, and the other script run is still playing
C11_Witness ==
  /\ script_file = NoneNum
  /\ messages = {"saved"}
  /\ store[DIR_D].last_played_timestamp = now
  /\ store[FILE_A].last_played_timestamp < now
  /\ \E p \in Procs : pc[p] = "playing" /\ ~cmd[p].script

\* ------------------------------------------------------------------ C12
\* C12: the return value of the parser is determined by the last marker
\* line alone: it is what that line gives when it is the only line, it
\* carries the path of that line, it is None when that line carries no
\* H:MM:SS time or a time of 2 seconds or less, whatever marker lines come
\* before it, and it is None when the output has no marker line.
C12_LastMarkerOnly ==
  output # <<>> =>
    IF ~HasStatus(input) THEN output[1] = NoneInfo
    ELSE LET l == LastMarker(input) IN
         /\ output[1] = parse(<<l>>)
         /\ output[1] # NoneInfo => output[1].path = l.path
         /\ l.pos \in Malformed => output[1] = NoneInfo
         /\ l.pos \in {playback_time(0, 0, 2), short_time(0, 0, 2)}
              => output[1] = NoneInfo

\* two marker lines for different files at different times: the result is
\* the second
C12_Witness ==
  /\ input = << StatusLine(Join(DIR_D, N_a), playback_time(1, 2, 3)),
                StatusLine(Join(DIR_D, N_B), playback_time(0, 1, 0)) >>
  /\ output = << [path |-> Join(DIR_D, N_B), position |-> 60] >>

\* ------------------------------------------------------------------ C13
\* C13: for a last marker line whose time is printed as H:MM:SS or
\* HH:MM:SS the parser returns h*3600 + m*60 + s when that is more than 2
\* (01:02:03 gives 3723) and None when it is 0, 1 or 2; it never returns a
\* position of 2 or less.
C13_SecondsOfToken ==
  output # <<>> =>
    /\ output[1] # NoneInfo => output[1].position > 2
    /\ HasStatus(input) =>
         \A c \in Clocks :
           LET l == LastMarker(input)
               total == c[1] * 3600 + c[2] * 60 + c[3]
           IN ( \/ l.pos = playback_time(c[1], c[2], c[3])
                \/ c[1] < 10 /\ l.pos = short_time(c[1], c[2], c[3]) )
              => IF total > 2
                 THEN output[1] = [path |-> l.path, position |-> total]
                 ELSE output[1] = NoneInfo

\* 01:02:03 was parsed to 3723 seconds
C13_Witness ==
  /\ input = << StatusLine(Join(DIR_D, N_a), playback_time(1, 2, 3)) >>
  /\ output = << [path |-> Join(DIR_D, N_a), position |-> 3723] >>

\* ------------------------------------------------------------------ C14
\* C14: the player is launched only on a path that exists at that moment
\* and, when the path is a folder, only if the scan of the folder yields a
\* media file, also when the path was valid when it was selected or saved.
C14_NoLaunchOnInvalid ==
  [][\A p \in Procs :
       Launches(p) =>
         LET path == args'[p].path_to_play IN
         /\ exists(disk, path)
         /\ (isdir(disk, path) \/ args'[p].is_folder)
              => get_media_files(disk, path) # <<>>]_vars

\* ------------------------------------------------------------------ C15
\* C15: load_all_sessions() never raises and always returns a mapping, the
\* empty mapping when the cache file is missing, cannot be read, is not
\* JSON or is JSON but not an object of sessions.
C15_LoadNeverRaises ==
  (output # <<>> /\ output[1].type # "NoneType") =>
    /\ output[1].raised = ""
    /\ output[1].type = "dict"
    /\ input.kind # "object" => output[1].value = EmptyMap

\* ------------------------------------------------------------------ C17
\* C17: whatever the cache file held, after save_session_data(M) the file
\* holds M alone: load_all_sessions() returns a mapping with the keys of M
\* and, key by key and field by field, the values of M.
C17_SaveThenLoad ==
  [][\A M \in Mappings :
       SaveAll(M) =>
         LET r == load_all_sessions_from(input') IN
         /\ r.raised = ""
         /\ r.type = "dict"
         /\ DOMAIN r.value = DOMAIN M
         /\ \A k \in DOMAIN M :
              /\ r.value[k].path = M[k].path
              /\ r.value[k].is_folder = M[k].is_folder
              /\ r.value[k].last_played_file = M[k].last_played_file
              /\ r.value[k].last_played_position = M[k].last_played_position
              /\ r.value[k].last_played_timestamp
                   = M[k].last_played_timestamp]_vars

\* a mapping of two sessions has just been saved
C17_Witness ==
  /\ output = <<Returned("NoneType", <<>>)>>
  /\ input.kind = "object"
  /\ Len(input.members) = 2
  /\ DOMAIN load_all_sessions_from(input).value = {FILE_A, DIR_D}

\* ------------------------------------------------------------------ C16
\* C16: Delete of key K leaves the store without K and with every other
\* entry as it was; Delete of a key that is not in the store changes
\* nothing; hence a second Delete of K gives the store of the first.
C16_DeleteIdempotent ==
  [][\A p \in Procs, k \in Keys :
       (Handles(p) /\ pc'[p] = "idle" /\ Delete(p, k)) =>
          /\ k \notin DOMAIN store'
          /\ \A j \in Keys \ {k} : Entry(store', j) = Entry(store, j)
          /\ k \notin DOMAIN store => store' = store
          /\ after_delete(store', k) = store'
          /\ ("deleted" \in messages') = (k \in DOMAIN store)]_vars

\* one of two stored sessions has just been deleted; the other is there
C16_Witness ==
  /\ messages = {"deleted"}
  /\ \E k \in Keys : DOMAIN store = {k} /\ store[k].last_played_timestamp < now

\* ------------------------------------------------------------------ C18
\* C18: get_media_files(F) lists exactly the regular files directly in F
\* whose name ends, in any letter case, with an extension of the allow-list,
\* as full paths in strictly ascending string order, hence without
\* duplicates; when F cannot be listed the result is the empty list.  Of the
\* names in the model "B.MP3", "a.mkv" and "s.mp4" end with such an
\* extension and "n.txt" does not; "s.mp4" is a directory.
C18_ScanListsMedia ==
  output # <<>> =>
    LET media_files == output[1]
        listable == input \in disk /\ input \in {DIR_D, Join(DIR_D, N_s)}
        expected ==
          IF listable
          THEN {Join(input, f) : f \in {g \in {N_B, N_a, N_s} :
                                          /\ Join(input, g) \in disk
                                          /\ g # N_s}}
          ELSE {}
    IN /\ {media_files[i] : i \in DOMAIN media_files} = expected
       /\ \A i, j \in DOMAIN media_files :
            i < j => StrLess(media_files[i], media_files[j])
       /\ Len(media_files) = Cardinality(expected)
       /\ ~listable => media_files = <<>>

\* the full folder was scanned: "/d/B.MP3" before "/d/a.mkv", without the
\* text file and the sub-directory
C18_Witness ==
  /\ disk = AllPaths
  /\ input = DIR_D
  /\ output = << <<Join(DIR_D, N_B), Join(DIR_D, N_a)>> >>

\* ------------------------------------------------------------------ C19
\* C19: in every store state a file session has last_played_file equal to
\* its key, and a folder session has a last_played_file that was in the
\* scan of the folder when the session was written, whatever file the
\* player reported.
C19_FolderFileInListing ==
  /\ [](\A k \in DOMAIN store :
          ~store[k].is_folder => store[k].last_played_file = k)
  /\ [][\A p \in Procs :
          Returns(p) =>
            \A k \in DOMAIN store' :
              (store'[k].is_folder /\ Entry(store', k) # Entry(store, k))
                => InList(get_media_files(disk, k),
                          store'[k].last_played_file)]_vars

\* ------------------------------------------------------------------ C20
\* C20: when launches with a resume anchor overlap, the hook script of a
\* player run that has not loaded it yet is there and carries the seek
\* target of that run's own launch, and the hook a run has loaded seeks to
\* the target of its own launch: no other launch overwrites the script and
\* no other cleanup removes it.
C20_OwnHookScript ==
  \A p \in Procs :
    (pc[p] = "playing" /\ cmd[p].script) =>
       /\ hook[p] # "off"
       /\ hook[p] = "pending" =>
            script_file = script_target(args[p].start_pos)
       /\ hook[p] \in {"armed", "fired"} =>
            target_time[p] = script_target(args[p].start_pos)
====
